---- MODULE Spec2Model ----
(***************************************************************************)
(* Model of docs/scripts/gen_mkdocs_yml.py: the documentation generator    *)
(* (DocumentationGenerator) with its two passes over the configured        *)
(* packages, and the MkDocs configuration updater                          *)
(* (SafeMkDocsConfigUpdater) with its template merge and its legacy        *)
(* region merge.                                                           *)
(*                                                                         *)
(* Text is modelled as Python's str.split('\n') sees it: a file is a       *)
(* non-empty sequence of lines (a trailing empty line stands for a final   *)
(* newline), and a line is a sequence of tokens whose concatenation is the *)
(* line's characters.  A line's indentation, when it has one, is its first *)
(* token, a run of spaces.                                                 *)
(***************************************************************************)
EXTENDS Integers, Sequences, FiniteSets, TLC

VARIABLES
    tree,                 \* the source files below every package root
    packages,             \* the display names of config.packages, in order
    only_index_pages,     \* config.only_index_pages
    single_entry_as_group,\* config.single_entry_as_group
    template,             \* scripts/mkdocs_template.yml: its lines, or NoFile
    mkdocs,               \* the destination mkdocs.yml: its lines, or NoFile
    package_nodes,        \* self.package_nodes
    nav_structure,        \* self.nav_structure
    nav,                  \* self.nav (mkdocs_gen_files.Nav)
    generated_files,      \* self.generated_files
    error_files,          \* self.error_files
    pc,                   \* where generate() stands
    idx,                  \* the package the current pass handles next
    second,               \* TRUE once generate() runs for the second time
    written,              \* pages create_documentation_file wrote in this run
    requested,            \* pages create_documentation_file was asked for in this run
    merge,                \* what update_mkdocs_config did in this run
    before,               \* the destination's content when this run's merge began
    previous,             \* the destination's content when the first run ended
    env,                  \* which I/O errors the environment may raise
    faulted               \* TRUE once a write to the destination has failed

vars == <<tree, packages, only_index_pages, single_entry_as_group, template,
          mkdocs, package_nodes, nav_structure, nav, generated_files,
          error_files, pc, idx, second, written, requested, merge, before,
          previous, env, faulted>>

(***************************************************************************)
(* Bounds of the model.                                                    *)
(***************************************************************************)
MaxFiles == 3      \* source files below a package root

NoFile == << <<"<no file>">> >>

(***************************************************************************)
(* Ordered dictionaries (Python dicts keep insertion order): a sequence of *)
(* [k, v] records with distinct keys.                                      *)
(***************************************************************************)
DictKeys(d) == {d[i].k : i \in 1..Len(d)}

DictHas(d, key) == key \in DictKeys(d)

DictGet(d, key) == d[CHOOSE i \in 1..Len(d) : d[i].k = key].v

DictSet(d, key, val) ==
    IF DictHas(d, key)
    THEN [i \in 1..Len(d) |-> IF d[i].k = key THEN [k |-> key, v |-> val] ELSE d[i]]
    ELSE Append(d, [k |-> key, v |-> val])

(***************************************************************************)
(* Path segments and their order.  Python compares str by code point;      *)
(* SegOrder lists the model's segment names in that order.                 *)
(***************************************************************************)
SegOrder == <<"Z", "__init__", "__main__", "a_mod", "api", "b_mod", "deep",
              "leaf", "mod", "pkg", "sub", "x">>

RankOf ==
    [s \in {SegOrder[i] : i \in 1..Len(SegOrder)} |->
        CHOOSE i \in 1..Len(SegOrder) : SegOrder[i] = s]

Rank(s) == RankOf[s]

\* tuple (and pathlib parts) comparison: lexicographic, a proper prefix first
RECURSIVE LexLess(_, _)
LexLess(a, b) ==
    IF b = <<>> THEN FALSE
    ELSE IF a = <<>> THEN TRUE
    ELSE IF Rank(a[1]) < Rank(b[1]) THEN TRUE
    ELSE IF Rank(a[1]) > Rank(b[1]) THEN FALSE
    ELSE LexLess(Tail(a), Tail(b))

\* sorted(...) of a set of tuples
RECURSIVE Sorted(_)
Sorted(S) ==
    IF S = {} THEN <<>>
    ELSE LET m == CHOOSE x \in S : \A y \in S \ {x} : LexLess(x, y)
         IN  <<m>> \o Sorted(S \ {m})

Prefix(s, n) == SubSeq(s, 1, n)

RECURSIVE Join(_, _)
Join(parts, sep) ==
    IF parts = <<>> THEN ""
    ELSE IF Len(parts) = 1 THEN parts[1]
    ELSE parts[1] \o sep \o Join(Tail(parts), sep)

(***************************************************************************)
(* The source tree.  A file is its module_path.parts (directories and      *)
(* stem) and, for an __init__.py, whether _parse_init_doc_and_all finds a  *)
(* non-empty __all__ list.  Every file of the tree is a valid, non-        *)
(* excluded Python module.  All configured packages hold the same tree.    *)
(***************************************************************************)
InitFiles ==
    { <<"__init__">>,
      <<"pkg", "sub", "__init__">>,
      <<"pkg", "sub", "mod", "__init__">>,
      <<"pkg", "sub", "mod", "a_mod", "__init__">>,
      <<"pkg", "sub", "mod", "b_mod", "__init__">>,
      <<"pkg", "sub", "mod", "b_mod", "api", "__init__">>,
      <<"pkg", "sub", "mod", "b_mod", "leaf", "__init__">>,
      <<"pkg", "sub", "mod", "b_mod", "leaf", "deep", "__init__">>,
      <<"pkg", "sub", "mod", "Z", "x", "__init__">> }

\* __init__.py files without an __all__ list
BareInitFiles ==
    { <<"pkg", "__init__">>,
      <<"pkg", "sub", "mod", "__init__">> }

ModuleFiles ==
    { <<"pkg", "sub", "leaf">> }

SourceFiles ==
    [parts : InitFiles, has_all : {TRUE}]
    \cup [parts : BareInitFiles \cup ModuleFiles, has_all : {FALSE}]

Trees ==
    { t \in SUBSET SourceFiles :
        /\ Cardinality(t) <= MaxFiles
        /\ \A f, g \in t : f.parts = g.parts => f = g }

Stem(f) == f.parts[Len(f.parts)]

\* sorted([p for p in code_src.rglob("*.py") ...])
PythonFiles(t) ==
    LET order == Sorted({f.parts : f \in t})
    IN  [i \in 1..Len(order) |-> CHOOSE f \in t : f.parts = order[i]]

(***************************************************************************)
(* Entry-point classification: the head of the per-file loop, the same in  *)
(* both passes.                                                            *)
(***************************************************************************)
docs_base_path == "reference"

\* process_init_module: the parts and doc_path it returns
InitParts(parts) == IF Len(parts) > 1 THEN Prefix(parts, Len(parts) - 1) ELSE parts

InitDocPath(parts) ==
    IF Len(parts) > 1
    THEN Join(Prefix(parts, Len(parts) - 1), "/") \o "/index.md"
    ELSE Join(parts, "/") \o ".md"

\* a loop that never looks at only_index_pages
AcceptedAnyModule(f, only_index) ==
    IF f.parts[Len(f.parts)] = "__init__" THEN f.has_all
    ELSE f.parts[Len(f.parts)] # "__main__"

\* whether the loop body goes on past its "continue" statements
Accepted(f, only_index) ==
    IF Stem(f) = "__init__" THEN f.has_all
    ELSE IF Stem(f) = "__main__" THEN FALSE
    ELSE ~only_index

PartsOf(f) == IF Stem(f) = "__init__" THEN InitParts(f.parts) ELSE f.parts

DocPath(f) ==
    IF Stem(f) = "__init__" THEN InitDocPath(f.parts)
    ELSE Join(f.parts, "/") \o ".md"

\* full_doc_path, and the string recorded in package_nodes
FullDocPath(pkg, f) == docs_base_path \o "/" \o pkg \o "/" \o DocPath(f)

\* source_is_init := (path.name == '__init__.py' and has_all)
SourceIsInit(f) == Stem(f) = "__init__" /\ f.has_all

generate_module_identifier(parts) == Join(parts, ".")

(***************************************************************************)
(* The navigation tree of one package, built from its package_nodes.  An   *)
(* item {label: target} is a leaf, an item {label: [items]} a group; the   *)
(* value stored under a display key is a list of items or a bare target.   *)
(***************************************************************************)
Leaf(label, target) == [label |-> label, group |-> FALSE, target |-> target, children |-> <<>>]

Group(label, children) == [label |-> label, group |-> TRUE, target |-> "", children |-> children]

ListValue(items) == [list |-> TRUE, items |-> items, target |-> ""]

LinkValue(target) == [list |-> FALSE, items |-> <<>>, target |-> target]

\* groups: first three parts -> data['Index'], the path of the first node seen
RECURSIVE Groups(_, _)
Groups(nodes, i) ==
    IF i = 0 THEN <<>>
    ELSE LET rest == Groups(nodes, i - 1)
             n    == nodes[i]
         IN  IF Len(n.k) >= 3 /\ ~DictHas(rest, Prefix(n.k, 3))
             THEN Append(rest, [k |-> Prefix(n.k, 3), v |-> n.v])
             ELSE rest

\* the children in descending order
DescendingOrder(S) ==
    LET asc == Sorted(S)
    IN  [i \in 1..Len(asc) |-> asc[Len(asc) + 1 - i]]

\* sorted(children), sorted(grand_children)
ChildOrder(S) == Sorted(S)

GrandChildItems(nodes, child_parts) ==
    LET grand_children == ChildOrder({p \in DictKeys(nodes) :
                                    Len(p) = 5 /\ Prefix(p, 4) = child_parts})
    IN  [j \in 1..Len(grand_children) |->
            Leaf(grand_children[j][5], DictGet(nodes, grand_children[j]))]

ChildItem(nodes, child_parts) ==
    LET child_name == child_parts[4]
        child_path == DictGet(nodes, child_parts)
        has_deeper == \E p \in DictKeys(nodes) : Len(p) > 4 /\ Prefix(p, 4) = child_parts
    IN  IF ~has_deeper THEN Leaf(child_name, child_path)
        ELSE Group(child_name,
                   <<Leaf(child_name, child_path)>> \o GrandChildItems(nodes, child_parts))

GroupItems(nodes, first3, index) ==
    LET children == ChildOrder({p \in DictKeys(nodes) : Len(p) = 4 /\ Prefix(p, 3) = first3})
    IN  <<Leaf(first3[3], index)>>
        \o [j \in 1..Len(children) |-> ChildItem(nodes, children[j])]

GroupValue(nodes, first3, index, as_group) ==
    LET group_items == GroupItems(nodes, first3, index)
    IN  IF Len(group_items) = 1
        THEN IF as_group THEN ListValue(group_items) ELSE LinkValue(index)
        ELSE ListValue(group_items)

RECURSIVE PutGroups(_, _, _, _, _)
PutGroups(structure, nodes, groups, i, as_group) ==
    IF i = 0 THEN structure
    ELSE DictSet(PutGroups(structure, nodes, groups, i - 1, as_group),
                 Join(groups[i].k, "."),
                 GroupValue(nodes, groups[i].k, groups[i].v, as_group))

\* a block that gives a package a mapping only when it has a group to put in it
BuildNavOfGroups(navs, nodes_of, pkg, as_group) ==
    IF ~DictHas(nodes_of, pkg) THEN navs
    ELSE LET nodes  == DictGet(nodes_of, pkg)
             old    == IF DictHas(navs, pkg) THEN DictGet(navs, pkg) ELSE <<>>
             groups == Groups(nodes, Len(nodes))
         IN  IF groups = <<>> THEN navs
             ELSE DictSet(navs, pkg, PutGroups(old, nodes, groups, Len(groups), as_group))

\* the "Build navigation structure for this package" block of both passes
BuildNav(navs, nodes_of, pkg, as_group) ==
    IF ~DictHas(nodes_of, pkg) \/ DictGet(nodes_of, pkg) = <<>> THEN navs
    ELSE LET nodes  == DictGet(nodes_of, pkg)
             old    == IF DictHas(navs, pkg) THEN DictGet(navs, pkg) ELSE <<>>
             groups == Groups(nodes, Len(nodes))
         IN  DictSet(navs, pkg, PutGroups(old, nodes, groups, Len(groups), as_group))

(***************************************************************************)
(* Text.  A str is the sequence of its lines (str.split('\n')); the empty  *)
(* str is one empty line.                                                  *)
(***************************************************************************)
EmptyLine == <<>>

EmptyText == <<EmptyLine>>

RECURSIVE Spaces(_)
Spaces(n) == IF n = 0 THEN "" ELSE " " \o Spaces(n - 1)

\* tokens that hold white space only
BlankTokens == {"", " ", "  ", "    ", "      ", "        ", "          "}

\* line.strip() == ""
IsBlank(line) == \A i \in 1..Len(line) : line[i] \in BlankTokens

NotBlank(line) == ~IsBlank(line)

\* a + b
TextConcat(a, b) ==
    SubSeq(a, 1, Len(a) - 1) \o <<a[Len(a)] \o b[1]>> \o Tail(b)

\* '\n'.join(lines), every element a str without a line break
JoinLines(lines) == IF lines = <<>> THEN EmptyText ELSE lines

\* the characters of a line, and of a text line by line (byte identity)
RECURSIVE Flat(_)
Flat(line) == IF line = <<>> THEN "" ELSE line[1] \o Flat(Tail(line))

Bytes(text) == [i \in 1..Len(text) |-> Flat(text[i])]

(***************************************************************************)
(* SafeMkDocsConfigUpdater: rendering.                                     *)
(***************************************************************************)
PLACEHOLDER == "{{API_REFERENCE_CONTENT}}"

\* items of the nav section
HomeLine == <<"  ", "- ", "Home", ": ", "index.md">>

AboutLine == <<"  ", "- ", "About", ": ", "about.md">>

ApiReferenceLine == <<"  ", "- ", "API Reference", ":">>

LLM_OVERVIEW_PATH == "extras/llms/index.md"

\* name.replace('_', ' ').title() followed by the acronym replacements
_format_display_name(name) ==
    CASE name = "bridgic-core"        -> "Bridgic-Core"
      [] name = "Bridgic-Core"        -> "Bridgic-Core"
      [] name = "bridgic_core"        -> "Bridgic Core"
      [] name = "bridgic-llms-openai" -> "Bridgic-LLMs-Openai"
      [] name = "pkg"                 -> "Pkg"
      [] name = "sub"                 -> "Sub"
      [] name = "mod"                 -> "Mod"
      [] name = "api"                 -> "API"
      [] name = "a_mod"               -> "A Mod"
      [] name = "b_mod"               -> "B Mod"
      [] name = "leaf"                -> "Leaf"
      [] name = "deep"                -> "Deep"
      [] name = "x"                   -> "X"
      [] name = "Z"                   -> "Z"
      [] name = "__init__"            -> "  Init  "
      [] name = "__main__"            -> "  Main  "

\* k.lower()
Lower(name) == IF name = "Bridgic-Core" THEN "bridgic-core" ELSE name

\* pkg_name.startswith('bridgic-llms-')
IsLlmsPackage(name) == name = "bridgic-llms-openai"

\* pkg_name.replace('bridgic-llms-', '').replace('-', '_')
DottedSuffix(name) == IF name = "bridgic-llms-openai" THEN "openai" ELSE name

\* the group keys of the model's trees, as the parts they were joined from
GroupKeys == { <<"pkg", "sub", "api">>, <<"pkg", "sub", "mod">> }

HasDot(key) == \E g \in GroupKeys : Join(g, ".") = key

KeyParts(key) == CHOOSE g \in GroupKeys : Join(g, ".") = key

FormattedName(key) == IF HasDot(key) THEN key ELSE _format_display_name(key)

\* _build_nav_structure: the stored values are lists and strings, never dicts
_build_nav_structure(structure) ==
    LET keys == Sorted({KeyParts(k) : k \in DictKeys(structure)})
    IN  [i \in 1..Len(keys) |->
            LET key   == Join(keys[i], ".")
                value == DictGet(structure, key)
            IN  IF value.list THEN Group(FormattedName(key), value.items)
                ELSE Leaf(FormattedName(key), value.target)]

_build_api_reference_nav(navs) ==
    [i \in 1..Len(navs) |->
        Group(_format_display_name(navs[i].k), _build_nav_structure(navs[i].v))]

\* a rendering that puts the children of a group at the group's own indentation
RECURSIVE FlatYamlLines(_, _, _)
FlatYamlLines(nav_list, i, indent) ==
    IF i = 0 THEN <<>>
    ELSE LET item == nav_list[i]
         IN  FlatYamlLines(nav_list, i - 1, indent) \o
             ( IF item.group
               THEN <<<<Spaces(indent), "- ", item.label, ":">>>>
                    \o FlatYamlLines(item.children, Len(item.children), indent)
               ELSE <<<<Spaces(indent), "- ", item.label, ": ", item.target>>>> )

FlatYaml(nav_list, indent) == JoinLines(FlatYamlLines(nav_list, Len(nav_list), indent))

RECURSIVE NavYamlLines(_, _)
_nav_to_yaml_string(nav_list, indent) == JoinLines(NavYamlLines(nav_list, indent))

RECURSIVE ItemsYamlLines(_, _, _)
ItemsYamlLines(nav_list, i, indent) ==
    IF i = 0 THEN <<>>
    ELSE LET item == nav_list[i]
             base_indent == Spaces(indent)
             sub_yaml == _nav_to_yaml_string(item.children, indent + 2)
         IN  ItemsYamlLines(nav_list, i - 1, indent) \o
             ( IF item.group
               THEN <<<<base_indent, "- ", item.label, ":">>>>
                    \o (IF sub_yaml # EmptyText THEN SelectSeq(sub_yaml, NotBlank) ELSE <<>>)
               ELSE <<<<base_indent, "- ", item.label, ": ", item.target>>>> )

NavYamlLines(nav_list, indent) == ItemsYamlLines(nav_list, Len(nav_list), indent)

\* the lines of the "Bridgic-Core" block
CoreLines(navs) ==
    LET core_key_candidates == SelectSeq([i \in 1..Len(navs) |-> navs[i].k],
                                         LAMBDA k : Lower(k) = "bridgic-core")
    IN  IF core_key_candidates = <<>> THEN <<>>
        ELSE LET core_key == core_key_candidates[1]
                 core_nav == _build_api_reference_nav(
                                 <<[k |-> core_key, v |-> DictGet(navs, core_key)]>>)
                 item     == core_nav[1]
                 sub_yaml == _nav_to_yaml_string(item.children, 6)
             IN  <<<<"    ", "- ", _format_display_name(item.label), ":">>>>
                 \o (IF sub_yaml # EmptyText THEN SelectSeq(sub_yaml, NotBlank) ELSE <<>>)

\* the lines of the "Bridgic-Integration" block
IntegrationLines(navs) ==
    LET llms == SelectSeq([i \in 1..Len(navs) |-> navs[i].k], IsLlmsPackage)
    IN  IF llms = <<>> THEN <<>>
        ELSE << <<"    ", "- ", "Bridgic-Integration", ":">>,
                <<"      ", "- ", "llms", ":">>,
                <<"        ", "- ", "llms", ": ", LLM_OVERVIEW_PATH>> >>
             \o [i \in 1..Len(llms) |->
                   <<"        ", "- ", "bridgic.llms." \o DottedSuffix(llms[i]), ": ",
                     "reference/" \o llms[i] \o "/bridgic/llms/"
                        \o DottedSuffix(llms[i]) \o "/index.md">>]

_generate_api_reference_content(navs) ==
    JoinLines(CoreLines(navs) \o IntegrationLines(navs))

\* line.replace(PLACEHOLDER, content), as text
RECURSIVE ReplaceInLine(_, _)
ReplaceInLine(line, content) ==
    IF line = <<>> THEN EmptyText
    ELSE LET rest == ReplaceInLine(Tail(line), content)
         IN  IF line[1] = PLACEHOLDER THEN TextConcat(content, rest)
             ELSE TextConcat(<<<<line[1]>>>>, rest)

\* template_content.replace(PLACEHOLDER, content)
RECURSIVE Replace(_, _)
Replace(text, content) ==
    IF Len(text) = 1 THEN ReplaceInLine(text[1], content)
    ELSE ReplaceInLine(text[1], content) \o Replace(Tail(text), content)

\* a merge that takes the placeholder for granted
PlaceholderAssumed(text) == TRUE

\* PLACEHOLDER in template_content
HasPlaceholder(text) ==
    \E i \in 1..Len(text) : \E j \in 1..Len(text[i]) : text[i][j] = PLACEHOLDER

(***************************************************************************)
(* SafeMkDocsConfigUpdater.update_mkdocs_config: the template merge.       *)
(* Its outcome is what it returned, whether it opened the destination for  *)
(* writing, and the destination's content afterwards.                      *)
(***************************************************************************)
NoMerge == [called |-> FALSE, returned |-> FALSE, opened |-> FALSE]

MergeOutcome(returned, opened, content) ==
    [returned |-> returned, opened |-> opened, content |-> content]

\* what the template merge writes when nothing fails
FinalContent(tmpl, navs) == Replace(tmpl, _generate_api_reference_content(navs))

\* the same write with the destination opened in mode 'a'
WriteFileAppend(old, final_content) == TextConcat(old, final_content)

\* open(self.mkdocs_path, 'w') followed by f.write(final_content)
WriteFile(old, final_content) == final_content

\* what an interrupted f.write leaves behind open(..., 'w'): the first n lines
Truncated(final_content, n) ==
    IF n = 0 THEN EmptyText ELSE SubSeq(final_content, 1, n)

\* the outcomes of update_mkdocs_config; can_fail: the environment may raise
\* an I/O error on the destination
TemplateMergeOutcomes(tmpl, dest, navs, can_fail) ==
    IF tmpl = NoFile THEN {MergeOutcome(FALSE, FALSE, dest)}
    ELSE IF ~HasPlaceholder(tmpl) THEN {MergeOutcome(FALSE, FALSE, dest)}
    ELSE LET final_content == FinalContent(tmpl, navs)
         IN  {MergeOutcome(TRUE, TRUE, WriteFile(dest, final_content))}
             \cup (IF can_fail
                   THEN {MergeOutcome(FALSE, FALSE, dest)}      \* open raises
                        \cup {MergeOutcome(FALSE, TRUE, Truncated(final_content, n)) :
                                 n \in 0..(Len(final_content) - 1)}  \* write raises
                   ELSE {})

(***************************************************************************)
(* SafeMkDocsConfigUpdater._update_mkdocs_config_legacy: the fallback      *)
(* merge, which edits the destination in place.                            *)
(***************************************************************************)
\* line.strip(), as far as its head goes
RECURSIVE LStrip(_)
LStrip(line) ==
    IF line = <<>> THEN <<>>
    ELSE IF line[1] \in BlankTokens THEN LStrip(Tail(line))
    ELSE line

\* line.strip().startswith('- <label>:')
StartsItem(line, label) ==
    LET stripped == LStrip(line)
    IN  Len(stripped) >= 3 /\ stripped[1] = "- " /\ stripped[2] = label
        /\ stripped[3] \in {":", ": "}

\* line.startswith('  - ') and not line.startswith('    ')
IsTopLevelItem(line) == Len(line) >= 2 /\ line[1] = "  " /\ line[2] = "- "

\* a search that takes any top-level key for the marker
AnyKeyLine(line) ==
    line # <<>> /\ line[1] \in {"site_name:", "theme:", "nav:", "navigation:"}

\* a line that r'^nav:\s*$' can start its match on
IsNavMarker(line) ==
    /\ line # <<>>
    /\ line[1] = "nav:"
    /\ \A j \in 2..Len(line) : line[j] \in BlankTokens

\* the keys ([a-z_]+:) that open a line of the model's files
TopLevelKeys == {"site_name:", "theme:", "nav:", "navigation:"}

Min(S) == CHOOSE x \in S : \A y \in S : x <= y

\* original_content[nav_match.end():]; \s* runs over the blank lines up to the
\* last line break before the next line that is not blank
RemainingContent(text, marker) ==
    LET later == {j \in (marker + 1)..Len(text) : NotBlank(text[j])}
    IN  IF later = {} THEN EmptyText
        ELSE <<EmptyLine>> \o SubSeq(text, Min(later), Len(text))

\* where r'^\n([a-z_]+:)' matches: an empty line followed by a top-level key
NextConfigMatches(remaining) ==
    {m \in 1..(Len(remaining) - 1) :
        /\ remaining[m] = EmptyLine
        /\ remaining[m + 1] # <<>>
        /\ remaining[m + 1][1] \in TopLevelKeys}

\* the loop of _rebuild_nav_content over nav_lines[1..i]
RECURSIVE RebuildLoop(_, _)
RebuildLoop(nav_lines, i) ==
    IF i = 0 THEN [new_nav_lines |-> <<>>, skip_api_reference |-> FALSE]
    ELSE LET s    == RebuildLoop(nav_lines, i - 1)
             line == nav_lines[i]
         IN  IF StartsItem(line, "API Reference")
             THEN [new_nav_lines |-> s.new_nav_lines, skip_api_reference |-> TRUE]
             ELSE IF s.skip_api_reference
             THEN IF IsTopLevelItem(line)
                  THEN [new_nav_lines |-> Append(s.new_nav_lines, line),
                        skip_api_reference |-> FALSE]
                  ELSE s
             ELSE [new_nav_lines |-> Append(s.new_nav_lines, line),
                   skip_api_reference |-> FALSE]

_rebuild_nav_content(nav_content, navs) ==
    LET new_nav_lines   == RebuildLoop(nav_content, Len(nav_content)).new_nav_lines
        yaml_str        == _nav_to_yaml_string(_build_api_reference_nav(navs), 2)
        new_api_section == TextConcat(<<ApiReferenceLine, EmptyLine>>, yaml_str)
        abouts          == {i \in 1..Len(new_nav_lines) :
                               StartsItem(new_nav_lines[i], "About")}
    IN  IF abouts # {}
        THEN LET about_index == Min(abouts)
             IN  SubSeq(new_nav_lines, 1, about_index - 1)
                 \o new_api_section \o <<EmptyLine>>
                 \o SubSeq(new_nav_lines, about_index, Len(new_nav_lines))
        ELSE (IF new_nav_lines # <<>> /\ NotBlank(new_nav_lines[Len(new_nav_lines)])
              THEN Append(new_nav_lines, EmptyLine)
              ELSE new_nav_lines)
             \o new_api_section

\* final_content of the fallback merge; marker: the line nav_match starts on
LegacyContent(original_content, marker, navs) ==
    LET content_before_nav ==
            IF marker = 1 THEN EmptyText
            ELSE SubSeq(original_content, 1, marker - 1) \o <<EmptyLine>>
        remaining_content == RemainingContent(original_content, marker)
        matches == NextConfigMatches(remaining_content)
        nav_content ==
            IF matches # {}
            THEN SubSeq(remaining_content, 1, Min(matches)) \o <<EmptyLine>>
            ELSE remaining_content
        content_after_nav ==
            IF matches # {}
            THEN SubSeq(remaining_content, Min(matches) + 1, Len(remaining_content))
            ELSE EmptyText
        new_nav_content == _rebuild_nav_content(nav_content, navs)
        head == TextConcat(TextConcat(content_before_nav, <<<<"nav:">>, EmptyLine>>),
                           new_nav_content)
    IN  IF content_after_nav # EmptyText THEN TextConcat(head, content_after_nav)
        ELSE head

\* the outcomes of _update_mkdocs_config_legacy
LegacyMergeOutcomes(dest, navs, can_fail) ==
    LET markers == {i \in 1..Len(dest) : IsNavMarker(dest[i])}
    IN  IF dest = NoFile THEN {MergeOutcome(FALSE, FALSE, dest)}
        ELSE IF markers = {} THEN {MergeOutcome(FALSE, FALSE, dest)}
        ELSE LET final_content == LegacyContent(dest, Min(markers), navs)
             IN  {MergeOutcome(TRUE, TRUE, WriteFile(dest, final_content))}
                 \cup (IF can_fail
                       THEN {MergeOutcome(FALSE, FALSE, dest)}
                            \cup {MergeOutcome(FALSE, TRUE, Truncated(final_content, n)) :
                                     n \in 0..(Len(final_content) - 1)}
                       ELSE {})

(***************************************************************************)
(* DocumentationGenerator: the two passes.                                 *)
(***************************************************************************)
\* a pass that starts every package from an empty table of nodes
FreshPackage(nodes_of, pkg) == DictSet(nodes_of, pkg, <<>>)

\* if package_name not in self.package_nodes: self.package_nodes[package_name] = {}
WithPackage(nodes_of, pkg) ==
    IF DictHas(nodes_of, pkg) THEN nodes_of ELSE DictSet(nodes_of, pkg, <<>>)

\* the file loop of _build_nav_structure_only
RECURSIVE Pass1Nodes(_, _, _, _, _)
Pass1Nodes(nodes, files, i, pkg, only_index) ==
    IF i = 0 THEN nodes
    ELSE LET sofar == Pass1Nodes(nodes, files, i - 1, pkg, only_index)
             f     == files[i]
         IN  IF Accepted(f, only_index) /\ SourceIsInit(f)
             THEN DictSet(sofar, PartsOf(f), FullDocPath(pkg, f))
             ELSE sofar

\* whether process_package records the page it created in package_nodes
RecordsNode(f) == SourceIsInit(f)

\* a file loop that gives the package up at the first page that fails
RECURSIVE Pass2Aborting(_, _, _, _, _, _)
Pass2Aborting(st, files, i, pkg, only_index, bad) ==
    IF i = 0 THEN st
    ELSE LET s == Pass2Aborting(st, files, i - 1, pkg, only_index, bad)
             f == files[i]
             full_doc_path == FullDocPath(pkg, f)
             created == full_doc_path \notin bad
         IN  IF ~Accepted(f, only_index) \/ s.err # st.err THEN s
             ELSE [ nodes |-> IF created /\ RecordsNode(f)
                              THEN DictSet(s.nodes, PartsOf(f), full_doc_path)
                              ELSE s.nodes,
                    nav   |-> IF ~only_index \/ Stem(f) = "__init__"
                              THEN DictSet(s.nav, <<pkg>> \o PartsOf(f),
                                           pkg \o "/" \o DocPath(f))
                              ELSE s.nav,
                    gen   |-> IF created THEN Append(s.gen, full_doc_path) ELSE s.gen,
                    err   |-> IF created THEN s.err ELSE Append(s.err, <<pkg>> \o f.parts),
                    req   |-> s.req \cup {full_doc_path},
                    ids   |-> s.ids \cup {generate_module_identifier(PartsOf(f))},
                    wr    |-> IF created THEN s.wr \cup {full_doc_path} ELSE s.wr ]

\* the file loop of process_package; bad: the pages whose creation raises
RECURSIVE Pass2(_, _, _, _, _, _)
Pass2(st, files, i, pkg, only_index, bad) ==
    IF i = 0 THEN st
    ELSE LET s == Pass2(st, files, i - 1, pkg, only_index, bad)
             f == files[i]
             full_doc_path == FullDocPath(pkg, f)
             created == full_doc_path \notin bad
         IN  IF ~Accepted(f, only_index) THEN s
             ELSE [ nodes |-> IF created /\ RecordsNode(f)
                              THEN DictSet(s.nodes, PartsOf(f), full_doc_path)
                              ELSE s.nodes,
                    nav   |-> IF ~only_index \/ Stem(f) = "__init__"
                              THEN DictSet(s.nav, <<pkg>> \o PartsOf(f),
                                           pkg \o "/" \o DocPath(f))
                              ELSE s.nav,
                    gen   |-> IF created THEN Append(s.gen, full_doc_path) ELSE s.gen,
                    err   |-> IF created THEN s.err ELSE Append(s.err, <<pkg>> \o f.parts),
                    req   |-> s.req \cup {full_doc_path},
                    ids   |-> s.ids \cup {generate_module_identifier(PartsOf(f))},
                    wr    |-> IF created THEN s.wr \cup {full_doc_path} ELSE s.wr ]

\* the pages process_package asks create_documentation_file for
Pages(t, pkg, only_index) == {FullDocPath(pkg, f) : f \in {g \in t : Accepted(g, only_index)}}

(***************************************************************************)
(* The inputs of a run.                                                    *)
(***************************************************************************)
\* the display names get_package_display_name gives the configured packages, in
\* the order of config.packages: package_info[path]['name'], which defaults to
\* the path, or else the path's name with "-" replaced by "_"
PackageLists ==
    { <<"bridgic-core">>, <<"bridgic_core">>, <<"pkg", "Bridgic-Core">>,
      <<"bridgic-core", "bridgic-llms-openai">> }

\* a template with the placeholder on a line of its own
TemplateFull ==
    << <<"site_name:", " Bridgic">>, <<"nav:">>, HomeLine, ApiReferenceLine,
       <<PLACEHOLDER>>, AboutLine, <<"theme:">>, EmptyLine >>

\* a template with the placeholder inside a line, and no final newline
TemplateInline ==
    << <<"nav:">>, ApiReferenceLine, <<"# ", PLACEHOLDER, " #">>, AboutLine >>

\* a template without the placeholder
TemplateBare ==
    << <<"site_name:", " Bridgic">>, <<"nav:">>, HomeLine, AboutLine, EmptyLine >>

Templates == {TemplateFull, TemplateInline, TemplateBare, NoFile}

\* the destination as an earlier, hand-written configuration left it
OldConfig == << <<"site_name:", " Old">>, <<"nav:">>, HomeLine, EmptyLine >>

\* the generator as DocumentationGenerator.__init__ leaves it, before generate()
Start ==
    /\ package_nodes = <<>>
    /\ nav_structure = <<>>
    /\ nav = <<>>
    /\ generated_files = <<>>
    /\ error_files = <<>>
    /\ pc = "pass1"
    /\ idx = 1
    /\ second = FALSE
    /\ written = {}
    /\ requested = {}
    /\ merge = NoMerge
    /\ before = mkdocs
    /\ previous = NoFile
    /\ faulted = FALSE

\* every source tree of the bound and every generation option, for one package;
\* page creation may fail, the destination's disk does not
Init ==
    /\ tree \in Trees
    /\ packages = <<"bridgic-core">>
    /\ only_index_pages \in BOOLEAN
    /\ single_entry_as_group \in BOOLEAN
    /\ template = TemplateFull
    /\ mkdocs = OldConfig
    /\ env = [disk_faults |-> FALSE, page_faults |-> TRUE]
    /\ Start

(***************************************************************************)
(* generate(): the state machine.                                          *)
(***************************************************************************)
\* one call of _build_nav_structure_only, for packages[idx]
BuildNavStructureOnly ==
    /\ pc = "pass1"
    /\ LET pkg      == packages[idx]
           files    == PythonFiles(tree)
           nodes_of == WithPackage(package_nodes, pkg)
           nodes    == Pass1Nodes(DictGet(nodes_of, pkg), files, Len(files), pkg,
                                  only_index_pages)
           new_of   == DictSet(nodes_of, pkg, nodes)
       IN  /\ package_nodes' = new_of
           /\ nav_structure' = BuildNav(nav_structure, new_of, pkg, single_entry_as_group)
    /\ IF idx < Len(packages)
       THEN idx' = idx + 1 /\ pc' = pc
       ELSE idx' = 1 /\ pc' = "merge"
    /\ UNCHANGED <<tree, packages, only_index_pages, single_entry_as_group, template,
                   mkdocs, nav, generated_files, error_files, second, written,
                   requested, merge, before, previous, env, faulted>>

\* "if self.nav_structure: self.update_mkdocs_config()"
UpdateMkdocsConfig ==
    /\ pc = "merge"
    /\ before' = mkdocs
    /\ IF nav_structure = <<>>
       THEN /\ merge' = NoMerge
            /\ UNCHANGED <<mkdocs, faulted>>
       ELSE \E o \in TemplateMergeOutcomes(template, mkdocs, nav_structure,
                                          env.disk_faults /\ ~faulted) :
               /\ mkdocs' = o.content
               /\ merge' = [called |-> TRUE, returned |-> o.returned, opened |-> o.opened]
               /\ faulted' = (faulted \/ (HasPlaceholder(template) /\ ~o.returned))
    /\ pc' = "pass2"
    /\ UNCHANGED <<tree, packages, only_index_pages, single_entry_as_group, template,
                   package_nodes, nav_structure, nav, generated_files, error_files,
                   idx, second, written, requested, previous, env>>

\* one call of process_package, for packages[idx]
ProcessPackage ==
    /\ pc = "pass2"
    /\ LET pkg == packages[idx]
           files == PythonFiles(tree)
           nodes_of == WithPackage(package_nodes, pkg)
       IN  \E bad \in SUBSET Pages(tree, pkg, only_index_pages) :
              /\ env.page_faults \/ bad = {}
              /\ LET st == Pass2([nodes |-> DictGet(nodes_of, pkg), nav |-> nav,
                                  gen |-> generated_files, err |-> error_files,
                                  req |-> requested, ids |-> {}, wr |-> written],
                                 files, Len(files), pkg, only_index_pages, bad)
                     new_of == DictSet(nodes_of, pkg, st.nodes)
                 IN  /\ package_nodes' = new_of
                     /\ nav_structure' = BuildNav(nav_structure, new_of, pkg,
                                                  single_entry_as_group)
                     /\ nav' = st.nav
                     /\ generated_files' = st.gen
                     /\ error_files' = st.err
                     /\ requested' = st.req
                     /\ written' = st.wr
    /\ IF idx < Len(packages)
       THEN idx' = idx + 1 /\ pc' = pc
       ELSE idx' = 1 /\ pc' = "stats"
    /\ UNCHANGED <<tree, packages, only_index_pages, single_entry_as_group, template,
                   mkdocs, second, merge, before, previous, env, faulted>>

\* print_statistics: the run is over
PrintStatistics ==
    /\ pc = "stats"
    /\ pc' = "done"
    /\ previous' = IF second THEN previous ELSE mkdocs
    /\ UNCHANGED <<tree, packages, only_index_pages, single_entry_as_group, template,
                   mkdocs, package_nodes, nav_structure, nav, generated_files,
                   error_files, idx, second, written, requested, merge, before, env,
                   faulted>>

\* generate() is called again on the unchanged inputs: by a new process
\* (fresh) or on the same DocumentationGenerator object
GenerateAgain ==
    /\ pc = "done"
    /\ ~second
    /\ second' = TRUE
    /\ pc' = "pass1"
    /\ idx' = 1
    /\ written' = {}
    /\ requested' = {}
    /\ merge' = NoMerge
    /\ before' = mkdocs
    /\ \E fresh \in BOOLEAN :
          IF fresh
          THEN /\ package_nodes' = <<>>
               /\ nav_structure' = <<>>
               /\ nav' = <<>>
               /\ generated_files' = <<>>
               /\ error_files' = <<>>
          ELSE UNCHANGED <<package_nodes, nav_structure, nav, generated_files,
                           error_files>>
    /\ UNCHANGED <<tree, packages, only_index_pages, single_entry_as_group, template,
                   mkdocs, previous, env, faulted>>

Next ==
    \/ BuildNavStructureOnly
    \/ UpdateMkdocsConfig
    \/ ProcessPackage
    \/ PrintStatistics

Spec == Init /\ [][Next]_vars

(***************************************************************************)
(* Two runs in a row over a few source trees, with every package list and  *)
(* template; the destination's disk may fail once, page creation does not. *)
(***************************************************************************)
File(parts, has_all) == [parts |-> parts, has_all |-> has_all]

\* one group pkg.sub.mod with one child pkg.sub.mod.leaf
TreeModLeaf ==
    { File(<<"pkg", "sub", "mod", "__init__">>, TRUE),
      File(<<"pkg", "sub", "mod", "leaf", "__init__">>, TRUE) }

\* two groups
TreeTwoGroups ==
    { File(<<"pkg", "sub", "api", "__init__">>, TRUE),
      File(<<"pkg", "sub", "mod", "__init__">>, TRUE) }

\* an entry point of two segments only
TreeFlat == { File(<<"pkg", "sub", "__init__">>, TRUE) }

\* a package index of five segments whose parent has no __all__ list
TreeBareParent ==
    { File(<<"pkg", "sub", "mod", "b_mod", "__init__">>, FALSE),
      File(<<"pkg", "sub", "mod", "b_mod", "leaf", "__init__">>, TRUE) }

ScenarioTrees == {TreeModLeaf, TreeTwoGroups, TreeFlat, TreeBareParent, {}}

InitTwice ==
    /\ tree \in ScenarioTrees
    /\ packages \in PackageLists
    /\ only_index_pages = TRUE
    /\ single_entry_as_group \in BOOLEAN
    /\ template \in Templates
    /\ mkdocs = OldConfig
    /\ env = [disk_faults |-> TRUE, page_faults |-> FALSE]
    /\ Start

NextTwice ==
    \/ BuildNavStructureOnly
    \/ UpdateMkdocsConfig
    \/ ProcessPackage
    \/ PrintStatistics
    \/ GenerateAgain

SpecTwice == InitTwice /\ [][NextTwice]_vars

(***************************************************************************)
(* One run over several packages in which the creation of any page may     *)
(* fail.  generate() is a sequential program that is never suspended: it   *)
(* keeps taking steps for as long as it has not returned.  Each step of    *)
(* Next is guarded by pc alone and changes pc or idx, so this is weak      *)
(* fairness of Next, written without ENABLED.                              *)
(***************************************************************************)
InitFaults ==
    /\ tree \in ScenarioTrees
    /\ packages \in PackageLists
    /\ only_index_pages \in BOOLEAN
    /\ single_entry_as_group \in BOOLEAN
    /\ template \in Templates
    /\ mkdocs = OldConfig
    /\ env = [disk_faults |-> FALSE, page_faults |-> TRUE]
    /\ Start

Running == []<>(pc = "done") \/ []<><<Next>>_vars

SpecFaults == InitFaults /\ [][Next]_vars /\ Running

(***************************************************************************)
(* The fallback merge applied, again and again, to a destination that a    *)
(* person wrote, with the navigation structure of the structure pass.      *)
(***************************************************************************)
MaxMerges == 2     \* applications of the fallback merge in one behaviour

ThemeLine == <<"theme:", " material">>

Heads == { <<>>, << <<"site_name:", " Bridgic">> >> }

Markers == { <<"nav:">>, <<"nav:", " ">>, <<"navigation:">> }

HomeItems == { <<>>, <<HomeLine>> }

\* an API Reference section written by hand, alone or with a comment line at
\* the indentation of the nav items after it
OldItem == <<"    ", "- ", "Old", ": ", "old.md">>

CommentLine == <<"  ", "# ", "guides">>

ApiItems == { <<>>, <<ApiReferenceLine, OldItem>>,
              <<ApiReferenceLine, OldItem, CommentLine>> }

AboutItems == { <<>>, <<AboutLine>> }

\* the end of the file: no final line break, a final line break, a top-level
\* key after an empty line, a top-level key right after the items
Tails == { <<>>, <<EmptyLine>>, <<EmptyLine, ThemeLine, EmptyLine>>,
           <<ThemeLine, EmptyLine>> }

LegacyConfigs ==
    { head \o <<marker>> \o home \o api \o about \o tail :
        head \in Heads, marker \in Markers, home \in HomeItems, api \in ApiItems,
        about \in AboutItems, tail \in Tails }

\* package_nodes after the structure pass over one package
NodesOf(t, pkg) ==
    <<[k |-> pkg, v |-> Pass1Nodes(<<>>, PythonFiles(t), Cardinality(t), pkg, TRUE)]>>

InitLegacy ==
    /\ tree \in ScenarioTrees
    /\ packages = <<"bridgic-core">>
    /\ only_index_pages = TRUE
    /\ single_entry_as_group = TRUE
    /\ template = NoFile
    /\ mkdocs \in LegacyConfigs
    /\ env \in [disk_faults : BOOLEAN, page_faults : {FALSE}]
    /\ package_nodes = NodesOf(tree, packages[1])
    /\ nav_structure = BuildNav(<<>>, package_nodes, packages[1], single_entry_as_group)
    /\ nav = <<>>
    /\ generated_files = <<>>
    /\ error_files = <<>>
    /\ pc = "legacy"
    /\ idx = 1
    /\ second = FALSE
    /\ written = {}
    /\ requested = {}
    /\ merge = NoMerge
    /\ before = mkdocs
    /\ previous = NoFile
    /\ faulted = FALSE

\* one call of _update_mkdocs_config_legacy(nav_structure)
UpdateMkdocsConfigLegacy ==
    /\ pc = "legacy"
    /\ idx <= MaxMerges
    /\ idx' = idx + 1
    /\ before' = mkdocs
    /\ \E o \in LegacyMergeOutcomes(mkdocs, nav_structure, env.disk_faults /\ ~faulted) :
          /\ mkdocs' = o.content
          /\ merge' = [called |-> TRUE, returned |-> o.returned, opened |-> o.opened]
          /\ faulted' = (faulted \/ (o.opened /\ ~o.returned))
    /\ UNCHANGED <<tree, packages, only_index_pages, single_entry_as_group, template,
                   package_nodes, nav_structure, nav, generated_files, error_files,
                   pc, second, written, requested, previous, env>>

NextLegacy == UpdateMkdocsConfigLegacy

SpecLegacy == InitLegacy /\ [][NextLegacy]_vars

(***************************************************************************)
(* Views of the state that the properties below are stated in.             *)
(***************************************************************************)
PackageSet == {packages[i] : i \in 1..Len(packages)}

\* package_nodes[pkg] and nav_structure[pkg], empty when the key is missing
NodesFor(pkg) == IF DictHas(package_nodes, pkg) THEN DictGet(package_nodes, pkg) ELSE <<>>

NavFor(pkg) == IF DictHas(nav_structure, pkg) THEN DictGet(nav_structure, pkg) ELSE <<>>

Elements(seq) == {seq[i] : i \in 1..Len(seq)}

\* a list without its first item
Rest(seq) == IF seq = <<>> THEN <<>> ELSE Tail(seq)

\* the items of a stored value: of its list, and of the lists nested in it
NavItems(value) ==
    LET level1 == Elements(value.items)
        level2 == UNION {Elements(it.children) : it \in level1}
        level3 == UNION {Elements(it.children) : it \in level2}
    IN  level1 \cup level2 \cup level3

\* the target paths nav_structure[pkg] holds
TargetsFor(pkg) ==
    UNION { {it.target : it \in {x \in NavItems(e.v) : ~x.group}}
            \cup (IF e.v.list THEN {} ELSE {e.v.target}) : e \in Elements(NavFor(pkg)) }

\* the entry point parts shows in nav_structure[pkg] under a label of its own:
\* as a group key, as a child of its group, or as a grandchild
AppearsAsLabel(pkg, parts) ==
    /\ Len(parts) \in 3..5
    /\ DictHas(NavFor(pkg), Join(Prefix(parts, 3), "."))
    /\ LET value == DictGet(NavFor(pkg), Join(Prefix(parts, 3), "."))
           children == Rest(value.items)
       IN  \/ Len(parts) = 3
           \/ /\ Len(parts) = 4
              /\ \E c \in Elements(children) : c.label = parts[4]
           \/ /\ Len(parts) = 5
              /\ \E c \in Elements(children) :
                    /\ c.label = parts[4]
                    /\ c.group
                    /\ \E gc \in Elements(Rest(c.children)) : gc.label = parts[5]

\* the target paths of the generated items of a configuration file: the link
\* lines indented deeper than the items of the nav section itself
DestTargets(text) ==
    { text[i][5] : i \in {j \in 1..Len(text) :
                            /\ Len(text[j]) >= 5
                            /\ text[j][1] \in BlankTokens \ {"", " ", "  "}
                            /\ text[j][2] = "- "
                            /\ text[j][4] = ": "} }

(***************************************************************************)
(* C1.  An __init__.py whose __all__ list is empty is never registered in  *)
(* package_nodes and never appears in nav_structure, neither under a label *)
(* of its own nor as a target, after either pass.                          *)
(***************************************************************************)
BareInits == {f \in tree : Stem(f) = "__init__" /\ ~f.has_all}

C1_EmptyAllNeverAppears ==
    \A f \in BareInits : \A pkg \in PackageSet :
        /\ ~DictHas(NodesFor(pkg), InitParts(f.parts))
        /\ FullDocPath(pkg, f) \notin TargetsFor(pkg)
        /\ ~AppearsAsLabel(pkg, InitParts(f.parts))

(***************************************************************************)
(* C2.  When generate() has finished, every target path in the navigation  *)
(* written to the destination is a page create_documentation_file wrote in *)
(* that run.                                                               *)
(***************************************************************************)
C2_NoDanglingTargets ==
    (pc = "done" /\ merge.returned) => DestTargets(mkdocs) \subseteq written

(***************************************************************************)
(* C3.  A second generate() on the unchanged tree, configuration and       *)
(* template, with no write to the destination failing in either run,       *)
(* leaves the destination byte-identical to what the first run left.       *)
(***************************************************************************)
C3_SecondRunByteIdentical ==
    (pc = "done" /\ second /\ ~faulted) => Bytes(mkdocs) = Bytes(previous)

\* both runs merged the template into the destination
C3_MergedTwice ==
    /\ pc = "done"
    /\ second
    /\ ~faulted
    /\ merge.returned
    /\ Bytes(mkdocs) # Bytes(OldConfig)
    /\ Len(packages) = 2

(***************************************************************************)
(* C9.  With a template that lacks the placeholder, update_mkdocs_config   *)
(* returns False and the destination is neither opened for writing nor     *)
(* modified.                                                               *)
(***************************************************************************)
C9_NoPlaceholderNoWrite ==
    (merge.called /\ template = TemplateBare) =>
        /\ ~merge.returned
        /\ ~merge.opened
        /\ mkdocs = before
        /\ mkdocs = OldConfig

\* the merge ran on the template without placeholder
C9_MergeOnBareTemplate ==
    /\ merge.called
    /\ template = TemplateBare
    /\ nav_structure # <<>>
    /\ pc = "pass2"

(***************************************************************************)
(* C10.  When update_mkdocs_config fails, the destination keeps exactly    *)
(* the content it had before the merge: it is never left truncated or      *)
(* partially written.                                                      *)
(***************************************************************************)
C10_FailedWriteLeavesDestination ==
    (merge.called /\ ~merge.returned) => mkdocs = before

(***************************************************************************)
(* C7.  With a template that holds the placeholder and one package whose   *)
(* only group is pkg.sub.mod with the one child pkg.sub.mod.leaf, the      *)
(* merged destination holds, where the placeholder stood, a nested list of *)
(* two items keyed mod and leaf in that order, and everything of the       *)
(* template outside the placeholder is unchanged.                          *)
(***************************************************************************)
PlaceholderLine(tmpl) == CHOOSE i \in 1..Len(tmpl) : PLACEHOLDER \in Elements(tmpl[i])

PlaceholderToken(line) == CHOOSE j \in 1..Len(line) : line[j] = PLACEHOLDER

\* a list item "- label: target" on the line
IsLink(line, label) ==
    \E j \in 1..Len(line) :
        j + 3 <= Len(line) /\ line[j] = "- " /\ line[j + 1] = label /\ line[j + 2] = ": "

C7_MergedAtPlaceholder ==
    ( /\ tree = TreeModLeaf
      /\ Len(packages) = 1
      /\ template \in {TemplateFull, TemplateInline}
      /\ merge.returned ) =>
        LET p      == PlaceholderLine(template)
            t      == PlaceholderToken(template[p])
            pre    == SubSeq(template[p], 1, t - 1)
            post   == SubSeq(template[p], t + 1, Len(template[p]))
            extra  == Len(mkdocs) - Len(template)
            region == SubSeq(mkdocs, p, p + extra)
            last   == region[Len(region)]
        IN  /\ extra >= 0
            /\ SubSeq(mkdocs, 1, p - 1) = SubSeq(template, 1, p - 1)
            /\ SubSeq(mkdocs, p + extra + 1, Len(mkdocs))
                   = SubSeq(template, p + 1, Len(template))
            /\ SubSeq(region[1], 1, Len(pre)) = pre
            /\ SubSeq(last, Len(last) - Len(post) + 1, Len(last)) = post
            /\ \E i \in 1..(Len(region) - 1) :
                  IsLink(region[i], "mod") /\ IsLink(region[i + 1], "leaf")

(***************************************************************************)
(* C4.  The fallback merge is idempotent: applied to its own output with   *)
(* the same navigation structure it leaves the destination byte-identical. *)
(***************************************************************************)
C4_LegacyMergeIdempotent ==
    (pc = "legacy" /\ idx > 2 /\ merge.returned /\ ~faulted) =>
        Bytes(mkdocs) = Bytes(before)

(***************************************************************************)
(* C5.  A group that has its own index and no 4-segment child is stored    *)
(* and rendered as a list of the one index item when single_entry_as_group *)
(* is true, and as the bare index target when it is false.                 *)
(***************************************************************************)
\* the group keys whose own index is registered and that have no child
LoneGroups(pkg) ==
    {g \in DictKeys(NodesFor(pkg)) :
        /\ Len(g) = 3
        /\ ~\E c \in DictKeys(NodesFor(pkg)) : Len(c) = 4 /\ Prefix(c, 3) = g}

C5_SingleEntryGroup ==
    \A pkg \in PackageSet : \A g \in LoneGroups(pkg) :
        LET key       == Join(g, ".")
            index     == DictGet(NodesFor(pkg), g)
            rendered  == _build_nav_structure(NavFor(pkg))
        IN  /\ DictHas(NavFor(pkg), key)
            /\ DictGet(NavFor(pkg), key) =
                  IF single_entry_as_group THEN ListValue(<<Leaf(g[3], index)>>)
                  ELSE LinkValue(index)
            /\ IF single_entry_as_group
               THEN Group(key, <<Leaf(g[3], index)>>) \in Elements(rendered)
               ELSE Leaf(key, index) \in Elements(rendered)

(***************************************************************************)
(* C6.  In every group the children, and in every nested group the         *)
(* grandchildren, stand in strictly ascending lexicographic order of their *)
(* segment tuples, in nav_structure and in the destination.                *)
(***************************************************************************)
StrictlyAscending(tuples) ==
    \A i, j \in 1..Len(tuples) : i < j => LexLess(tuples[i], tuples[j])

Labels(items) == [i \in 1..Len(items) |-> items[i].label]

\* the labels of the list items of a text that are indented by indent
DestLabels(text, indent) ==
    LET at == SelectSeq(text, LAMBDA l : Len(l) >= 3 /\ l[1] = indent /\ l[2] = "- ")
    IN  [i \in 1..Len(at) |-> <<at[i][3]>>]

\* how many lines at the head of a text are indented by indent
RunLength(text, indent) ==
    CHOOSE n \in 0..Len(text) :
        /\ \A k \in 1..n : text[k] # <<>> /\ text[k][1] = indent
        /\ n < Len(text) => (text[n + 1] = <<>> \/ text[n + 1][1] # indent)

\* the lists written below the nested groups of a text
NestedLists(text) ==
    { LET after == SubSeq(text, i + 1, Len(text))
      IN  SubSeq(after, 1, RunLength(after, "          ")) :
          i \in {j \in 1..Len(text) : Len(text[j]) = 4 /\ text[j][1] = "        "} }

C6_ChildrenAscending ==
    /\ \A pkg \in PackageSet : \A e \in Elements(NavFor(pkg)) :
          LET g        == KeyParts(e.k)
              children == Rest(e.v.items)
          IN  /\ StrictlyAscending([i \in 1..Len(children) |-> g \o <<children[i].label>>])
              /\ \A c \in Elements(children) :
                    StrictlyAscending(
                        [i \in 1..Len(Rest(c.children)) |->
                            g \o <<c.label, Rest(c.children)[i].label>>])
    /\ merge.returned =>
          /\ StrictlyAscending(Rest(DestLabels(mkdocs, "        ")))
          /\ \A list \in NestedLists(mkdocs) :
                StrictlyAscending(Rest(DestLabels(list, "          ")))

\* two children of one group, a_mod and b_mod, stored and written out
C6_TwoChildren ==
    /\ merge.returned
    /\ \E pkg \in PackageSet : \E e \in Elements(NavFor(pkg)) :
          Labels(Rest(e.v.items)) = <<"a_mod", "b_mod">>
    /\ Rest(DestLabels(mkdocs, "        ")) = << <<"a_mod">>, <<"b_mod">> >>

(***************************************************************************)
(* C8.  With only_index_pages set, a file whose stem is not __init__ is    *)
(* skipped in both passes: no page is requested for it, it gets no nav     *)
(* entry and is not registered.  For the tree pkg/__init__.py (no          *)
(* __all__), pkg/sub/__init__.py (with __all__), pkg/sub/leaf.py the only  *)
(* entry point is pkg.sub.                                                 *)
(***************************************************************************)
TreeIndexOnly ==
    { File(<<"pkg", "__init__">>, FALSE),
      File(<<"pkg", "sub", "__init__">>, TRUE),
      File(<<"pkg", "sub", "leaf">>, FALSE) }

C8_OnlyIndexPages ==
    only_index_pages =>
        /\ \A f \in {x \in tree : Stem(x) # "__init__"} : \A pkg \in PackageSet :
              /\ FullDocPath(pkg, f) \notin requested \cup written \cup Elements(generated_files)
              /\ ~DictHas(nav, <<pkg>> \o f.parts)
              /\ ~DictHas(NodesFor(pkg), f.parts)
              /\ FullDocPath(pkg, f) \notin TargetsFor(pkg)
        /\ (tree = TreeIndexOnly /\ pc = "done") =>
              \A pkg \in PackageSet :
                 /\ DictKeys(NodesFor(pkg)) = {<<"pkg", "sub">>}
                 /\ requested = {"reference/" \o pkg \o "/pkg/sub/index.md"}
                 /\ DictKeys(nav) = {<<pkg, "pkg", "sub">>}

\* the run over the tree of the scenario is over and its one page is written
C8_ScenarioDone ==
    /\ only_index_pages
    /\ tree = TreeIndexOnly
    /\ pc = "done"
    /\ written = {"reference/bridgic-core/pkg/sub/index.md"}

(***************************************************************************)
(* C11.  When the destination has no nav marker line, the fallback merge   *)
(* returns False and leaves the destination as it was.                     *)
(***************************************************************************)
NoNavLine(text) == \A i \in 1..Len(text) : text[i] = <<>> \/ text[i][1] # "nav:"

C11_NoMarkerNoChange ==
    (pc = "legacy" /\ merge.called /\ NoNavLine(before)) =>
        /\ ~merge.returned
        /\ ~merge.opened
        /\ mkdocs = before

\* the fallback merge ran on a destination that has other keys but no nav marker
C11_MergedWithoutMarker ==
    /\ pc = "legacy"
    /\ merge.called
    /\ NoNavLine(before)
    /\ <<"navigation:">> \in Elements(before)
    /\ nav_structure # <<>>

(***************************************************************************)
(* C12.  The content the template merge puts in the placeholder's place    *)
(* holds the whole navigation structure: for every package key of          *)
(* nav_structure, whatever its display name, every group key and every     *)
(* target of that package is written to the destination.                   *)
(***************************************************************************)
\* the text has a list item with this label
HasLabel(text, label) ==
    \E i \in 1..Len(text) : \E j \in 1..(Len(text[i]) - 1) :
        text[i][j] = "- " /\ text[i][j + 1] = label

C12_AllPackagesRendered ==
    merge.returned =>
        \A pkg \in DictKeys(nav_structure) :
            /\ TargetsFor(pkg) \subseteq DestTargets(mkdocs)
            /\ \A e \in Elements(NavFor(pkg)) : HasLabel(mkdocs, e.k)

(***************************************************************************)
(* C13.  A page whose creation fails is caught and recorded in error_files *)
(* and is not counted in generated_files; every other candidate of the     *)
(* package and every later package is still processed, and the run reaches *)
(* the final statistics.  An entry of error_files stands for the pair of   *)
(* the source path and the text of the exception.                          *)
(***************************************************************************)
\* the candidates of a package: the files the loop does not skip
Candidates(only_index) == {f \in tree : Accepted(f, only_index)}

C13_AtStatistics ==
    /\ \A pkg \in PackageSet : \A f \in Candidates(only_index_pages) :
           /\ FullDocPath(pkg, f) \in requested
           /\ IF FullDocPath(pkg, f) \in written
              THEN /\ FullDocPath(pkg, f) \in Elements(generated_files)
                   /\ (<<pkg>> \o f.parts) \notin Elements(error_files)
              ELSE /\ FullDocPath(pkg, f) \notin Elements(generated_files)
                   /\ (<<pkg>> \o f.parts) \in Elements(error_files)
    /\ Len(generated_files) + Len(error_files)
           = Cardinality(PackageSet) * Cardinality(Candidates(only_index_pages))

C13_FailuresRecorded ==
    /\ [](pc = "done" => C13_AtStatistics)
    /\ <>(pc = "done")

C13_FailureThenPages ==
    /\ pc = "done"
    /\ Len(packages) = 2
    /\ error_files # <<>>
    /\ error_files[1][1] = packages[1]
    /\ \E f \in tree : FullDocPath(packages[2], f) \in Elements(generated_files)
    /\ \E f \in tree : FullDocPath(packages[2], f) \in requested \ written

(***************************************************************************)
(* C14.  The index target of a group is the target of the entry point      *)
(* whose ModulePath is the group key itself, never that of a deeper entry  *)
(* point that shares the three segments; the first item of the group is    *)
(* labelled with the last segment of the key.                              *)
(***************************************************************************)
\* the index target nav_structure keeps for a group
IndexTarget(value) == IF value.list THEN value.items[1].target ELSE value.target

C14_IndexIsGroupKeyEntry ==
    \A pkg \in PackageSet : \A e \in Elements(NavFor(pkg)) :
        LET first3 == KeyParts(e.k)
        IN  /\ DictHas(NodesFor(pkg), first3)
            /\ IndexTarget(e.v) = DictGet(NodesFor(pkg), first3)
            /\ e.v.list => (~e.v.items[1].group /\ e.v.items[1].label = first3[3])

(***************************************************************************)
(* C15.  Nesting is capped at two levels below the group key: the page of  *)
(* an entry point of six or more segments is never a target in             *)
(* nav_structure, and a list inside a child group holds leaves only.       *)
(***************************************************************************)
\* the items of the lists nested in the items of a stored value
GrandChildren(value) ==
    UNION {Elements(it.children) : it \in Elements(value.items)}

C15_TwoLevelCap ==
    \A pkg \in PackageSet :
        /\ \A f \in tree :
               Len(PartsOf(f)) >= 6 => FullDocPath(pkg, f) \notin TargetsFor(pkg)
        /\ \A e \in Elements(NavFor(pkg)) : \A it \in GrandChildren(e.v) : ~it.group

(***************************************************************************)
(* C16.  A registered 4-segment child is stored as a nested group exactly  *)
(* when a 5-segment entry point lies under it: the nested group holds the  *)
(* child's own index under the child's name and then its 5-segment         *)
(* descendants in ascending order, and nothing else; a child without such  *)
(* a descendant is stored as a plain leaf.                                 *)
(***************************************************************************)
\* the registered entry points of five segments under a child
FiveSegmentsUnder(pkg, child) ==
    {p \in DictKeys(NodesFor(pkg)) : Len(p) = 5 /\ Prefix(p, 4) = child}

\* what the statement above expects to find for a child
ExpectedChild(pkg, child) ==
    LET own   == Leaf(child[4], DictGet(NodesFor(pkg), child))
        below == Sorted(FiveSegmentsUnder(pkg, child))
    IN  IF below = <<>> THEN own
        ELSE Group(child[4],
                   <<own>> \o [j \in 1..Len(below) |->
                                 Leaf(below[j][5], DictGet(NodesFor(pkg), below[j]))])

C16_NestedExactlyWithFiveSegments ==
    \A pkg \in DictKeys(nav_structure) :
        \A child \in {p \in DictKeys(NodesFor(pkg)) : Len(p) = 4} :
            LET key == Join(Prefix(child, 3), ".")
            IN  /\ DictHas(NavFor(pkg), key)
                /\ DictGet(NavFor(pkg), key).list
                /\ \E i \in 2..Len(DictGet(NavFor(pkg), key).items) :
                       DictGet(NavFor(pkg), key).items[i] = ExpectedChild(pkg, child)

(***************************************************************************)
(* C17.  The parts computed for an __init__.py, at any depth and directly  *)
(* in the package root too, drop the trailing __init__: no key of          *)
(* package_nodes, no key of nav and no identifier of a requested page ends *)
(* in the segment __init__.                                                *)
(***************************************************************************)
Last(parts) == parts[Len(parts)]

C17_InitSegmentDropped ==
    \A pkg \in PackageSet :
        /\ \A p \in DictKeys(NodesFor(pkg)) : Last(p) # "__init__"
        /\ \A k \in DictKeys(nav) : Last(k) # "__init__"
        /\ \A f \in tree :
               FullDocPath(pkg, f) \in requested =>
                   generate_module_identifier(PartsOf(f))
                       # generate_module_identifier(Prefix(PartsOf(f), Len(PartsOf(f)) - 1)
                                                    \o <<"__init__">>)

(***************************************************************************)
(* C18.  When the run is over, every entry point whose page was created,   *)
(* package index or leaf module, is registered in package_nodes under its  *)
(* package, and every registered entry point has its page in               *)
(* generated_files: the two cover the same entry points.                   *)
(***************************************************************************)
C18_RegistryCoversGenerated ==
    pc = "done" =>
        \A pkg \in PackageSet :
            /\ \A f \in tree :
                   FullDocPath(pkg, f) \in Elements(generated_files) =>
                       /\ DictHas(NodesFor(pkg), PartsOf(f))
                       /\ DictGet(NodesFor(pkg), PartsOf(f)) = FullDocPath(pkg, f)
            /\ \A e \in Elements(NodesFor(pkg)) : e.v \in Elements(generated_files)

(***************************************************************************)
(* C19.  In the fallback merge the region that is rebuilt ends at the      *)
(* first line after the nav marker that starts at column zero with a       *)
(* top-level key, with or without an empty line before it: the lines       *)
(* before the marker open the output and the lines from that key onward    *)
(* close it, each of them byte for byte as it was.                         *)
(***************************************************************************)
\* the line the nav marker is on, and the first top-level key line after it
MarkerLine(text) == Min({i \in 1..Len(text) : IsNavMarker(text[i])})

KeyLinesAfter(text, m) ==
    {i \in (m + 1)..Len(text) : text[i] # <<>> /\ text[i][1] \in TopLevelKeys}

\* the last n lines of a text
LastLines(text, n) == SubSeq(text, Len(text) - n + 1, Len(text))

C19_OutsideRegionCarried ==
    (pc = "legacy" /\ merge.returned) =>
        LET m    == MarkerLine(before)
            keys == KeyLinesAfter(before, m)
        IN  /\ Len(mkdocs) >= m
            /\ Bytes(SubSeq(mkdocs, 1, m - 1)) = Bytes(SubSeq(before, 1, m - 1))
            /\ keys # {} =>
                   LET n == Len(before) - Min(keys) + 1
                   IN  /\ Len(mkdocs) >= n
                       /\ Bytes(LastLines(mkdocs, n)) = Bytes(LastLines(before, n))

(***************************************************************************)
(* C20.  Stripping the API Reference section of the destination removes    *)
(* the marker line and the lines after it that are indented deeper, and    *)
(* stops at the next line indented as the marker or less: that line and    *)
(* the later lines of the region are kept.  Lines of white space are left  *)
(* out of account, and the region is taken to end before the first         *)
(* top-level key.  Stated for a destination a person wrote.                *)
(***************************************************************************)
\* the width of the white space a line begins with
Indent(line) ==
    IF line = <<>> \/ line[1] \notin BlankTokens THEN 0
    ELSE CHOOSE n \in 0..10 : Spaces(n) = line[1]

C20_StrippingStopsAtMarkerIndent ==
    (pc = "legacy" /\ merge.returned /\ before \in LegacyConfigs) =>
        LET m    == MarkerLine(before)
            keys == KeyLinesAfter(before, m)
            end  == IF keys = {} THEN Len(before) ELSE Min(keys) - 1
            apis == {i \in (m + 1)..end : StartsItem(before[i], "API Reference")}
        IN  apis # {} =>
              LET a     == Min(apis)
                  stops == {j \in (a + 1)..end :
                               /\ NotBlank(before[j])
                               /\ Indent(before[j]) <= Indent(before[a])}
                  stop  == IF stops = {} THEN end + 1 ELSE Min(stops)
              IN  /\ \A j \in (a + 1)..(stop - 1) :
                         NotBlank(before[j]) =>
                             Flat(before[j]) \notin Elements(Bytes(mkdocs))
                  /\ \A j \in stop..end :
                         NotBlank(before[j]) =>
                             Flat(before[j]) \in Elements(Bytes(mkdocs))

(***************************************************************************)
(* C21.  The merge has two modes, chosen by the template file: when the    *)
(* template exists the destination is what the template merge leaves and   *)
(* the fallback merge is not run; when there is no template file the       *)
(* destination is what the fallback merge leaves of the file that was      *)
(* there.  Stated for a merge step in which no write failed.               *)
(***************************************************************************)
\* the merge step of this run has just been taken, and no write of it failed
JustMerged == pc = "pass2" /\ idx = 1 /\ merge.called /\ ~faulted

C21_ModeByTemplate ==
    JustMerged =>
        IF template = NoFile
        THEN \E o \in LegacyMergeOutcomes(before, nav_structure, FALSE) :
                 /\ Bytes(mkdocs) = Bytes(o.content)
                 /\ merge.returned = o.returned
        ELSE \E o \in TemplateMergeOutcomes(template, before, nav_structure, FALSE) :
                 /\ Bytes(mkdocs) = Bytes(o.content)
                 /\ merge.returned = o.returned

(***************************************************************************)
(* C22.  _nav_to_yaml_string renders a group as the one line '- key:'      *)
(* followed by the rendering of its children two spaces deeper, and a leaf *)
(* as the one line '- key: target'; the lines come one per item, in the    *)
(* order of the tree.  Stated of the lines a successful template merge     *)
(* puts under the package line of the destination.                         *)
(***************************************************************************)
\* one line per item of the tree, parents before children, in list order
RECURSIVE ItemLines(_, _)
ItemLines(items, indent) ==
    IF items = <<>> THEN <<>>
    ELSE LET item == items[1]
             line == IF item.group
                     THEN Spaces(indent) \o "- " \o item.label \o ":"
                     ELSE Spaces(indent) \o "- " \o item.label \o ": " \o item.target
         IN  <<line>> \o ItemLines(item.children, indent + 2)
                      \o ItemLines(Tail(items), indent)

\* the lines of the destination between the package line and the About item
UnderPackageLine(text) ==
    LET about == Min({i \in 1..Len(text) : StartsItem(text[i], "About")})
    IN  Bytes(SubSeq(text, 6, about - 1))

C22_OneLinePerItem ==
    (pc = "pass2" /\ idx = 1 /\ merge.returned) =>
        /\ Flat(mkdocs[5]) = "    - Bridgic-Core:"
        /\ UnderPackageLine(mkdocs)
               = ItemLines(_build_nav_structure(NavFor(packages[1])), 6)

C22_NestedGroupRendered ==
    /\ pc = "pass2"
    /\ idx = 1
    /\ merge.returned
    /\ \E e \in Elements(NavFor(packages[1])) :
           /\ e.v.list
           /\ \E it \in Elements(e.v.items) : it.group /\ Len(it.children) >= 2
           /\ \E it \in Elements(e.v.items) : ~it.group /\ it.label # KeyParts(e.k)[3]

(***************************************************************************)
(* C23.  In the navigation a successful template merge writes, a label     *)
(* without a dot (the package name, the index label of a group, the label  *)
(* of a child or grandchild) is title-cased with the acronym corrections,  *)
(* and a dotted group key is written as it is.                             *)
(***************************************************************************)
C23_LabelsFormatted ==
    (pc = "pass2" /\ idx = 1 /\ merge.returned) =>
        \A pkg \in DictKeys(nav_structure) :
            /\ HasLabel(mkdocs, _format_display_name(pkg))
            /\ \A e \in Elements(NavFor(pkg)) :
                   /\ HasLabel(mkdocs, e.k)
                   /\ \A it \in NavItems(e.v) :
                          /\ HasLabel(mkdocs, _format_display_name(it.label))
                          /\ it.label # _format_display_name(it.label)
                                 => ~HasLabel(mkdocs, it.label)

(***************************************************************************)
(* C24.  Within one run the second pass leaves nav_structure as the first  *)
(* pass built it: every call of process_package rebuilds the structure of  *)
(* its package to the value it had, also when the creation of some pages   *)
(* fails in that call.                                                     *)
(***************************************************************************)
C24_SecondPassKeepsNav ==
    [][pc = "pass2" => nav_structure' = nav_structure]_vars

C24_FailedPageStillInNav ==
    /\ pc = "stats"
    /\ \E pkg \in PackageSet : \E f \in tree :
           /\ FullDocPath(pkg, f) \in requested \ written
           /\ FullDocPath(pkg, f) \in TargetsFor(pkg)
           /\ \E g \in tree : FullDocPath(pkg, g) \in written

(***************************************************************************)
(* C25.  An accepted package index of five segments is registered in       *)
(* package_nodes and has its page requested, and it is in nav_structure,   *)
(* under a label of its own or as a target, only if its parent of four     *)
(* segments is a registered package index too.                             *)
(***************************************************************************)
\* the accepted package indexes of five segments
FiveSegmentIndexes == {f \in tree : SourceIsInit(f) /\ Len(PartsOf(f)) = 5}

C25_FiveSegmentsNeedParent ==
    pc # "pass1" =>
        \A pkg \in PackageSet : \A f \in FiveSegmentIndexes :
            /\ DictHas(NodesFor(pkg), PartsOf(f))
            /\ pc = "done" => FullDocPath(pkg, f) \in requested
            /\ (\/ FullDocPath(pkg, f) \in TargetsFor(pkg)
                \/ AppearsAsLabel(pkg, PartsOf(f)))
                   => DictHas(NodesFor(pkg), Prefix(PartsOf(f), 4))

(***************************************************************************)
(* C26.  A registered package index of fewer than three segments is never  *)
(* in nav_structure, neither as a key nor as a target.  A package whose    *)
(* registered entry points all have fewer than three segments still gets a *)
(* mapping in nav_structure, an empty one, and with it the merge step is   *)
(* taken.                                                                  *)
(***************************************************************************)
\* the registered entry points of a package that are too short for a group
ShortNodes(pkg) == {e \in Elements(NodesFor(pkg)) : Len(e.k) < 3}

OnlyShortNodes(pkg) ==
    NodesFor(pkg) # <<>> /\ \A e \in Elements(NodesFor(pkg)) : Len(e.k) < 3

C26_ShortEntriesOutOfNav ==
    pc # "pass1" =>
        \A pkg \in PackageSet :
            /\ \A e \in ShortNodes(pkg) :
                   /\ e.v \notin TargetsFor(pkg)
                   /\ ~DictHas(NavFor(pkg), Join(e.k, "."))
            /\ OnlyShortNodes(pkg) =>
                   /\ DictHas(nav_structure, pkg)
                   /\ DictGet(nav_structure, pkg) = <<>>
                   /\ pc # "merge" => merge.called

C26_MergedWithEmptyMapping ==
    /\ pc = "pass2"
    /\ merge.called
    /\ merge.returned
    /\ OnlyShortNodes(packages[1])
    /\ nav_structure = <<[k |-> packages[1], v |-> <<>>]>>
    /\ Cardinality(ShortNodes(packages[1])) >= 2

====
